---- MODULE Spec2Model ----
(***************************************************************************)
(* Binary (MSD, radix-2) radix sort of src/bin_radix_sort.cpp.             *)
(*                                                                         *)
(* One repetition of benchmark() is modelled: the input vector is copied   *)
(* to v2 and v3, bin_radix_sort_rec(v2) runs to completion and then        *)
(* bin_radix_sort_it(v3) runs.  The element type T is an unsigned integer  *)
(* of W bits.  Every iteration of the two-pointer loops, every call and    *)
(* return of the recursive helper and every read or write of the explicit  *)
(* stack is one step.                                                      *)
(*                                                                         *)
(* std::vector::operator[] with an index >= size() is undefined behaviour. *)
(* The explicit stack of bin_radix_sort_it has v.size() slots; a write at  *)
(* an index past them is modelled as a choice between the two outcomes a   *)
(* build produces: the process is stopped (null data() of an empty vector, *)
(* a checked operator[]), or the store lands in the memory that follows    *)
(* the buffer and is read back from there by the matching stack[top--].    *)
(*                                                                         *)
(* oob, pushed, popped, rec_steps and it_steps are history variables:      *)
(* they record what the code did and are never read by an action's guard.  *)
(***************************************************************************)
EXTENDS Integers, Sequences, FiniteSets, Bags, TLC

\* Bit width of the element type T (sizeof(T) * 8), scaled down.
W == 2

\* Longest input vector explored.
MaxLen == 4

Values == 0 .. (2 ^ W - 1)

Inputs == UNION {[1 .. n -> Values] : n \in 0 .. MaxLen}

VARIABLES
    input,      \* the generated vector (benchmark: v1 before std::sort)
    v2,         \* the copy sorted by bin_radix_sort_rec
    v3,         \* the copy sorted by bin_radix_sort_it
    pc,         \* position of the repetition
    frames,     \* call stack of bin_radix_sort_rec_inm, innermost last
    stack,      \* bin_radix_sort_it: the slots of `stack`, slot i at stack[i + 1]
    top,        \* bin_radix_sort_it: `top`
    cur,        \* bin_radix_sort_it: the popped <<start, size, bit>>
    left,       \* bin_radix_sort_it: `left`
    right,      \* bin_radix_sort_it: `right`
    oob,        \* some stack access used an index outside [0, v.size())
    pushed,     \* history: the tasks written to the stack, in order
    popped,     \* history: the tasks read from the stack, in order
    rec_steps,  \* history: partition steps started by the recursive variant
    it_steps    \* history: partition steps started by the iterative variant

vars == <<input, v2, v3, pc, frames, stack, top, cur, left, right, oob,
          pushed, popped, rec_steps, it_steps>>

recVars == <<v2, frames, rec_steps>>

----------------------------------------------------------------------------
\* Pure helpers.

\* (x >> bit) & 1
Bit(x, bit) == (x \div (2 ^ bit)) % 2

\* Mutant: the saved element is not written back.
Swap_m(s, i, j) == [s EXCEPT ![i] = s[j]]

\* std::swap(s[i], s[j]) / the tmp swap of the iterative variant (1-based i, j).
Swap(s, i, j) == [s EXCEPT ![i] = s[j], ![j] = s[i]]

\* Mutant: the sort starts one bit too high.
TopBit_m == W

\* sizeof(T) * 8 - 1: the bit the sort starts with.
TopBit == W - 1

\* Mutant: the last bit is never used.
BaseCase_m(size, bit) == size <= 1 \/ bit <= 0

\* size <= 1 || bit < 0
BaseCase(size, bit) == size <= 1 \/ bit < 0

\* Mutant: the left partition keeps the length of the whole range.
LeftTask_whole(start, size, lft, bit) == <<start, size, bit - 1>>

\* Mutant: the right partition is pushed twice.
LeftTask_m(start, size, lft, bit) == <<lft, size - (lft - start), bit - 1>>

\* {start, left - start, bit - 1}
LeftTask(start, size, lft, bit) == <<start, lft - start, bit - 1>>

\* Mutant: the right partition keeps the length of the whole range.
RightTask_m(start, size, lft, bit) == <<lft, size, bit - 1>>

\* {left, size - (left - start), bit - 1}
RightTask(start, size, lft, bit) == <<lft, size - (lft - start), bit - 1>>

\* vview.subspan(0, left) of the view (start, size): <<start, size>> of the result.
SubspanFirst(start, size, lft) == <<start, lft>>

\* vview.subspan(left) of the view (start, size).
SubspanRest(start, size, lft) == <<start + lft, size - lft>>

\* std::sort: the ascending arrangement of s (insertion sort).
RECURSIVE InsertSorted(_, _)
InsertSorted(s, x) ==
    IF s = <<>> THEN <<x>>
    ELSE IF x <= Head(s) THEN <<x>> \o s
    ELSE <<Head(s)>> \o InsertSorted(Tail(s), x)

RECURSIVE StdSort(_)
StdSort(s) == IF s = <<>> THEN <<>> ELSE InsertSorted(StdSort(Tail(s)), Head(s))

\* A frame of the recursive helper: the span (start, size) over v2, the bit,
\* the locals left and right (relative to the span) and the frame's position.
Frame(start, size, bit) ==
    [start |-> start, size |-> size, bit |-> bit, left |-> 0, right |-> 0, at |-> "entry"]

Depth == Len(frames)
Fr == frames[Depth]

SetTop(f) == [frames EXCEPT ![Depth] = f]

\* Leaving the outermost invocation ends bin_radix_sort_rec.
AfterReturn == IF Depth = 1 THEN "it_alloc" ELSE "rec"

----------------------------------------------------------------------------
Init ==
    /\ input \in Inputs
    /\ v2 = input
    /\ v3 = input
    /\ pc = "rec_call"
    /\ frames = <<>>
    /\ stack = <<>>
    /\ top = -1
    /\ cur = <<0, 0, 0>>
    /\ left = 0
    /\ right = 0
    /\ oob = FALSE
    /\ pushed = <<>>
    /\ popped = <<>>
    /\ rec_steps = 0
    /\ it_steps = 0

----------------------------------------------------------------------------
\* bin_radix_sort_rec

\* bin_radix_sort_rec_inm(std::span{v}, sizeof(T) * 8 - 1)
RecCall ==
    /\ pc = "rec_call"
    /\ frames' = <<Frame(0, Len(v2), TopBit)>>
    /\ pc' = "rec"
    /\ UNCHANGED <<input, v2, v3, rec_steps>>
    /\ UNCHANGED <<stack, top, cur, left, right, oob, pushed, popped, it_steps>>

\* if (vview.size() <= 1 || bit < 0) return;
RecBase ==
    /\ pc = "rec"
    /\ Fr.at = "entry"
    /\ BaseCase(Fr.size, Fr.bit)
    /\ frames' = SubSeq(frames, 1, Depth - 1)
    /\ pc' = AfterReturn
    /\ UNCHANGED <<input, v2, v3, rec_steps>>
    /\ UNCHANGED <<stack, top, cur, left, right, oob, pushed, popped, it_steps>>

\* int left = 0; int right = vview.size() - 1;
RecBegin ==
    /\ pc = "rec"
    /\ Fr.at = "entry"
    /\ ~BaseCase(Fr.size, Fr.bit)
    /\ frames' = SetTop([Fr EXCEPT !.left = 0, !.right = Fr.size - 1, !.at = "loop"])
    /\ rec_steps' = rec_steps + 1
    /\ UNCHANGED <<input, v2, v3, pc>>
    /\ UNCHANGED <<stack, top, cur, left, right, oob, pushed, popped, it_steps>>

\* while (left <= right), b == 0: ++left
RecLoopZero ==
    /\ pc = "rec"
    /\ Fr.at = "loop"
    /\ Fr.left <= Fr.right
    /\ Bit(v2[Fr.start + Fr.left + 1], Fr.bit) = 0
    /\ frames' = SetTop([Fr EXCEPT !.left = Fr.left + 1])
    /\ UNCHANGED <<input, v2, v3, pc, rec_steps>>
    /\ UNCHANGED <<stack, top, cur, left, right, oob, pushed, popped, it_steps>>

\* while (left <= right), b == 1: std::swap(vview[left], vview[right]); --right
RecLoopOne ==
    /\ pc = "rec"
    /\ Fr.at = "loop"
    /\ Fr.left <= Fr.right
    /\ Bit(v2[Fr.start + Fr.left + 1], Fr.bit) # 0
    /\ v2' = Swap(v2, Fr.start + Fr.left + 1, Fr.start + Fr.right + 1)
    /\ frames' = SetTop([Fr EXCEPT !.right = Fr.right - 1])
    /\ UNCHANGED <<input, v3, pc, rec_steps>>
    /\ UNCHANGED <<stack, top, cur, left, right, oob, pushed, popped, it_steps>>

\* bin_radix_sort_rec_inm(vview.subspan(0, left), bit - 1)
RecCallFirst ==
    /\ pc = "rec"
    /\ Fr.at = "loop"
    /\ Fr.left > Fr.right
    /\ LET sub == SubspanFirst(Fr.start, Fr.size, Fr.left) IN
       frames' = Append(SetTop([Fr EXCEPT !.at = "first"]),
                        Frame(sub[1], sub[2], Fr.bit - 1))
    /\ UNCHANGED <<input, v2, v3, pc, rec_steps>>
    /\ UNCHANGED <<stack, top, cur, left, right, oob, pushed, popped, it_steps>>

\* bin_radix_sort_rec_inm(vview.subspan(left), bit - 1)
RecCallRest ==
    /\ pc = "rec"
    /\ Fr.at = "first"
    /\ LET sub == SubspanRest(Fr.start, Fr.size, Fr.left) IN
       frames' = Append(SetTop([Fr EXCEPT !.at = "rest"]),
                        Frame(sub[1], sub[2], Fr.bit - 1))
    /\ UNCHANGED <<input, v2, v3, pc, rec_steps>>
    /\ UNCHANGED <<stack, top, cur, left, right, oob, pushed, popped, it_steps>>

\* the end of the lambda's body
RecReturn ==
    /\ pc = "rec"
    /\ Fr.at = "rest"
    /\ frames' = SubSeq(frames, 1, Depth - 1)
    /\ pc' = AfterReturn
    /\ UNCHANGED <<input, v2, v3, rec_steps>>
    /\ UNCHANGED <<stack, top, cur, left, right, oob, pushed, popped, it_steps>>

----------------------------------------------------------------------------
\* bin_radix_sort_it

\* Slots the vector `stack` owns.
Capacity == Len(v3)

\* std::vector<std::tuple<int, int, int>> stack(v.size()): value-initialised.
NewStack == [i \in 1 .. Capacity |-> <<0, 0, 0>>]

\* arr with task stored in slot idx (slot idx is arr[idx + 1]).  Stores past
\* the buffer come one slot at a time, so idx <= Len(arr).
Stored(arr, idx, task) ==
    IF idx < Len(arr) THEN [arr EXCEPT ![idx + 1] = task]
    ELSE Append(arr, task)

\* stack[++top] = task on the array arr, then continue at `next`.  With the
\* index past the buffer the behaviour is undefined: the process stops, or
\* the store lands behind the buffer.
StackWrite(arr, task, next) ==
    /\ \/ /\ top + 1 < Capacity
          /\ UNCHANGED oob
       \/ /\ top + 1 >= Capacity
          /\ oob' = TRUE
    /\ \/ /\ stack' = Stored(arr, top + 1, task)
          /\ top' = top + 1
          /\ pushed' = Append(pushed, task)
          /\ pc' = next
       \/ /\ top + 1 >= Capacity
          /\ pc' = "crashed"
          /\ UNCHANGED <<stack, top, pushed>>

\* std::vector<std::tuple<int, int, int>> stack(v.size()); int top = -1;
\* stack[++top] = {0, v.size(), sizeof(T) * 8 - 1};
ItSeed ==
    /\ pc = "it_alloc"
    /\ StackWrite(NewStack, <<0, Len(v3), TopBit>>, "it_pop")
    /\ UNCHANGED <<input, v3, cur, left, right, popped, it_steps>>
    /\ UNCHANGED recVars

\* while (top >= 0) { const auto [start, size, bit] = stack[top--];
\*     if (size <= 1 || bit < 0) continue;
ItPopSkip ==
    /\ pc = "it_pop"
    /\ top >= 0
    /\ BaseCase(stack[top + 1][2], stack[top + 1][3])
    /\ cur' = stack[top + 1]
    /\ popped' = Append(popped, stack[top + 1])
    /\ top' = top - 1
    /\ UNCHANGED <<input, v3, pc, stack, left, right, oob, pushed, it_steps>>
    /\ UNCHANGED recVars

\* ... otherwise: int left = start; int right = start + size - 1;
ItPopBegin ==
    /\ pc = "it_pop"
    /\ top >= 0
    /\ ~BaseCase(stack[top + 1][2], stack[top + 1][3])
    /\ cur' = stack[top + 1]
    /\ popped' = Append(popped, stack[top + 1])
    /\ top' = top - 1
    /\ left' = stack[top + 1][1]
    /\ right' = stack[top + 1][1] + stack[top + 1][2] - 1
    /\ it_steps' = it_steps + 1
    /\ pc' = "it_loop"
    /\ UNCHANGED <<input, v3, stack, oob, pushed>>
    /\ UNCHANGED recVars

\* while (left <= right), b == 0: ++left
ItLoopZero ==
    /\ pc = "it_loop"
    /\ left <= right
    /\ Bit(v3[left + 1], cur[3]) = 0
    /\ left' = left + 1
    /\ UNCHANGED <<input, v3, pc, stack, top, cur, right, oob, pushed, popped, it_steps>>
    /\ UNCHANGED recVars

\* Mutant: left is advanced on a swap too.
ItLoopOne_m ==
    /\ pc = "it_loop"
    /\ left <= right
    /\ Bit(v3[left + 1], cur[3]) # 0
    /\ v3' = Swap(v3, left + 1, right + 1)
    /\ right' = right - 1
    /\ left' = left + 1
    /\ UNCHANGED <<input, pc, stack, top, cur, oob, pushed, popped, it_steps>>
    /\ UNCHANGED recVars

\* while (left <= right), b == 1: tmp = v[left]; v[left] = v[right];
\* v[right] = tmp; --right
ItLoopOne ==
    /\ pc = "it_loop"
    /\ left <= right
    /\ Bit(v3[left + 1], cur[3]) # 0
    /\ v3' = Swap(v3, left + 1, right + 1)
    /\ right' = right - 1
    /\ UNCHANGED <<input, pc, stack, top, cur, left, oob, pushed, popped, it_steps>>
    /\ UNCHANGED recVars

\* The loop has ended: the next statement is the first push.
ItLoopExit ==
    /\ pc = "it_loop"
    /\ left > right
    /\ pc' = "it_push_first"
    /\ UNCHANGED <<input, v3, stack, top, cur, left, right, oob, pushed, popped, it_steps>>
    /\ UNCHANGED recVars

\* stack[++top] = {start, left - start, bit - 1};
ItPushFirst ==
    /\ pc = "it_push_first"
    /\ StackWrite(stack, LeftTask(cur[1], cur[2], left, cur[3]), "it_push_second")
    /\ UNCHANGED <<input, v3, cur, left, right, popped, it_steps>>
    /\ UNCHANGED recVars

\* stack[++top] = {left, size - (left - start), bit - 1};
ItPushSecond ==
    /\ pc = "it_push_second"
    /\ StackWrite(stack, RightTask(cur[1], cur[2], left, cur[3]), "it_pop")
    /\ UNCHANGED <<input, v3, cur, left, right, popped, it_steps>>
    /\ UNCHANGED recVars

\* while (top >= 0) is false: bin_radix_sort_it returns.
ItReturn ==
    /\ pc = "it_pop"
    /\ top < 0
    /\ pc' = "done"
    /\ UNCHANGED <<input, v3, stack, top, cur, left, right, oob, pushed, popped, it_steps>>
    /\ UNCHANGED recVars

----------------------------------------------------------------------------
Next ==
    \/ RecCall
    \/ RecBase
    \/ RecBegin
    \/ RecLoopZero
    \/ RecLoopOne
    \/ RecCallFirst
    \/ RecCallRest
    \/ RecReturn
    \/ ItSeed
    \/ ItPopSkip
    \/ ItPopBegin
    \/ ItLoopZero
    \/ ItLoopOne
    \/ ItLoopExit
    \/ ItPushFirst
    \/ ItPushSecond
    \/ ItReturn

Spec == Init /\ [][Next]_vars

----------------------------------------------------------------------------
\* Vocabulary of the properties.

N == Len(input)

\* result[i] <= result[i + 1] for all adjacent i
Ascending(s) == \A i \in 1 .. Len(s) - 1 : s[i] <= s[i + 1]

\* The multiset of the values of s at the 0-based indices [start, start + size).
RangeBag(s, start, size) ==
    LET idx == {i \in 1 .. Len(s) : start < i /\ i <= start + size} IN
    [x \in {s[i] : i \in idx} |-> Cardinality({i \in idx : s[i] = x})]

SeqBag(s) == RangeBag(s, 0, Len(s))

\* s and t agree at every index outside [start, start + size).
SameOutside(s, t, start, size) ==
    /\ Len(s) = Len(t)
    /\ \A i \in 1 .. Len(s) : (i <= start \/ i > start + size) => s[i] = t[i]

RecFinished == pc \notin {"rec_call", "rec"}
ItRunning == pc \in {"it_pop", "it_loop", "it_push_first", "it_push_second"}

\* The tasks pending on the explicit stack, bottom first.
Pending == SubSeq(stack, 1, top + 1)

----------------------------------------------------------------------------
\* C1: once bin_radix_sort_rec has returned, v2 is in ascending order and
\* equals the reference sort of the input element by element; once
\* bin_radix_sort_it has returned, the same holds of v3, so the two variants
\* produce the same output.
Thm_C1 ==
    /\ RecFinished => Ascending(v2) /\ v2 = StdSort(input)
    /\ pc = "done" => Ascending(v3) /\ v3 = StdSort(input) /\ v3 = v2

\* Both variants have returned on an input that was not in order already.
Wit_C1 == pc = "done" /\ N >= 3 /\ ~Ascending(input) /\ v2 # input /\ v3 # input

\* C2: every step of a partition loop permutes the values of its range and
\* leaves the rest of the vector alone, in both variants, and at every moment
\* the multiset of the whole vector is the multiset of the input.
PartitionPermutes ==
    /\ (pc = "rec" /\ Fr.at = "loop") =>
          /\ RangeBag(v2', Fr.start, Fr.size) = RangeBag(v2, Fr.start, Fr.size)
          /\ SameOutside(v2', v2, Fr.start, Fr.size)
    /\ pc = "it_loop" =>
          /\ RangeBag(v3', cur[1], cur[2]) = RangeBag(v3, cur[1], cur[2])
          /\ SameOutside(v3', v3, cur[1], cur[2])
    /\ SeqBag(v2') = SeqBag(input')
    /\ SeqBag(v3') = SeqBag(input')

Thm_C2 == [][PartitionPermutes]_vars

\* Both sorts are over and each moved elements.
Wit_C2 == pc = "done" /\ v2 # input /\ v3 # input /\ SeqBag(v3) = SeqBag(input)

\* C6: when a two-pointer loop has ended, left = right + 1, left is inside
\* [start, start + length], every element of [start, left) has bit b = 0 and
\* every element of [left, start + length) has bit b = 1; in both variants.
RecLoopEnded == pc = "rec" /\ Fr.at = "loop" /\ Fr.left > Fr.right
ItLoopEnded ==
    \/ pc = "it_loop" /\ left > right
    \/ pc \in {"it_push_first", "it_push_second"}

Thm_C6 ==
    /\ RecLoopEnded =>
          /\ Fr.left = Fr.right + 1
          /\ 0 <= Fr.left /\ Fr.left <= Fr.size
          /\ \A i \in 0 .. Fr.size - 1 :
                Bit(v2[Fr.start + i + 1], Fr.bit) = (IF i < Fr.left THEN 0 ELSE 1)
    /\ ItLoopEnded =>
          /\ left = right + 1
          /\ cur[1] <= left /\ left <= cur[1] + cur[2]
          /\ \A i \in cur[1] .. cur[1] + cur[2] - 1 :
                Bit(v3[i + 1], cur[3]) = (IF i < left THEN 0 ELSE 1)

\* A loop of the iterative variant has ended with both partitions non-empty
\* after at least one swap, and so did one of the recursive variant before.
Wit_C6 ==
    /\ ItLoopEnded
    /\ cur[1] < left /\ left < cur[1] + cur[2]
    /\ v3 # input
    /\ v2 # input

\* C3: the number of simultaneously pending tasks never exceeds N, the
\* capacity of the work-list: every write stack[++top] targets an index in
\* [0, N).
Claim_C3 == ~oob /\ (ItRunning => top + 1 <= Capacity)

\* C4: on the empty and on a one-element vector both variants return at once:
\* no partition step is run, no access leaves the vector or the work-list,
\* the process is not stopped and the vector is unchanged.
Claim_C4 ==
    N <= 1 =>
        /\ rec_steps = 0 /\ it_steps = 0
        /\ ~oob
        /\ pc # "crashed"
        /\ v2 = input /\ v3 = input
        /\ Depth <= 1

\* C5: both variants terminate on every input: a run that has not reached the
\* return of bin_radix_sort_it with an empty work-list can take a step, and
\* neither variant runs more than W * N partition steps.
Claim_C5 ==
    /\ (pc = "done" /\ top < 0) \/ ENABLED Next
    /\ rec_steps <= W * N
    /\ it_steps <= W * N

\* C7: every view and every task has 0 <= start and start + length <= N; the
\* outermost view and the first task span [0, N); the two views or tasks of a
\* split are adjacent and cover their parent exactly; every element a
\* partition loop reads or swaps lies inside the current range.
InRange(start, size) == 0 <= start /\ 0 <= size /\ start + size <= N

RangesInside ==
    /\ \A i \in 1 .. Depth : InRange(frames[i].start, frames[i].size)
    /\ Depth >= 1 => frames[1].start = 0 /\ frames[1].size = N
    /\ \A i \in 1 .. Depth - 1 :
          LET p == frames[i]
              c == frames[i + 1]
          IN  /\ p.at \in {"first", "rest"}
              /\ p.at = "first" => c.start = p.start /\ c.size = p.left
              /\ p.at = "rest" =>
                    /\ c.start = p.start + p.left
                    /\ c.start + c.size = p.start + p.size
    /\ (pc = "rec" /\ Fr.at = "loop" /\ Fr.left <= Fr.right) =>
          /\ 0 <= Fr.left /\ Fr.right < Fr.size
    /\ ItRunning => \A i \in 1 .. top + 1 : InRange(stack[i][1], stack[i][2])
    /\ Len(pushed) >= 1 => pushed[1][1] = 0 /\ pushed[1][2] = N
    /\ \A i \in 1 .. Len(popped) : InRange(popped[i][1], popped[i][2])
    /\ (pc = "it_loop" /\ left <= right) =>
          /\ cur[1] <= left /\ right < cur[1] + cur[2]

SplitCovers ==
    (pc = "it_push_second" /\ pc' = "it_pop") =>
        LET l == stack'[top']
            r == stack'[top' + 1]
        IN  /\ l[1] = cur[1]
            /\ l[1] + l[2] = r[1]
            /\ r[1] + r[2] = cur[1] + cur[2]

Thm_C7 == []RangesInside /\ [][SplitCovers]_vars

\* Both variants are inside a split whose two parts are non-empty.
Wit_C7 ==
    /\ pc = "it_pop"
    /\ top >= 1
    /\ stack[top][2] >= 1 /\ stack[top + 1][2] >= 1
    /\ stack[top][1] + stack[top][2] = stack[top + 1][1]
    /\ stack[top + 1][1] + stack[top + 1][2] = N
    /\ N >= 3

\* C8: a pushed task is popped exactly once (the tasks popped so far and the
\* tasks still pending are together the tasks pushed, and none is pending
\* when the sort returns), and no two pushed tasks are the same
\* (start, length, bit) triple, empty ranges included.
PoppedOnce ==
    /\ SeqBag(popped \o Pending) = SeqBag(pushed)
    /\ pc = "done" => Pending = <<>> /\ SeqBag(popped) = SeqBag(pushed)

Claim_C8 ==
    /\ PoppedOnce
    /\ \A i, j \in 1 .. Len(pushed) : pushed[i] = pushed[j] => i = j

\* C8 as amended: ... and no two pushed tasks with a non-empty range are the
\* same triple.
Thm_C8 ==
    /\ PoppedOnce
    /\ \A i, j \in 1 .. Len(pushed) :
          (pushed[i] = pushed[j] /\ pushed[i][2] >= 1) => i = j

\* The sort has returned after pushing the same empty task twice.
Wit_C8 ==
    /\ pc = "done"
    /\ \E i, j \in 1 .. Len(pushed) :
          i < j /\ pushed[i] = pushed[j] /\ pushed[i][2] = 0

\* C9: the work-list never holds more than W + 1 tasks, the pending tasks
\* cover pairwise disjoint ranges, and two pending tasks have the same bit
\* only if they are the two on top of the stack.
Thm_C9 ==
    ItRunning =>
        /\ top + 1 <= W + 1
        /\ \A i, j \in 1 .. top + 1 :
              i < j =>
                 /\ \/ stack[i][1] + stack[i][2] <= stack[j][1]
                    \/ stack[j][1] + stack[j][2] <= stack[i][1]
                 /\ stack[i][3] = stack[j][3] => (i = top /\ j = top + 1)
                 /\ stack[i][3] >= stack[j][3]

\* W + 1 tasks are pending, more than the N slots of the work-list.
Wit_C9 == ItRunning /\ top + 1 = W + 1 /\ top + 1 > Capacity

\* C10: at most W invocations of the recursive helper are active at a time.
Claim_C10 == Depth <= W

\* C10 as amended: at most W + 1 invocations are active at a time, whatever
\* N is: the invocation at depth d works on bit W - d, and only the innermost
\* one can be the invocation for bit -1, which returns at once.
Thm_C10 ==
    /\ Depth <= W + 1
    /\ \A i \in 1 .. Depth : frames[i].bit = W - i
    /\ \A i \in 1 .. Depth - 1 : frames[i].bit >= 0

\* W + 1 invocations are active.
Wit_C10 == Depth = W + 1 /\ Fr.bit = -1

====
